---- MODULE Spec2Model ----
(***************************************************************************)
(* Ssl::ConnectionImpl (source/common/ssl/connection_impl.cc): the         *)
(* non-blocking TLS connection state machine.  Connections served by one   *)
(* dispatcher thread share the TLS engine's error queue; every handler     *)
(* runs to completion before the next one starts, so one action is one     *)
(* handler call.  The engine, the peer-verification policy and the         *)
(* upstream callbacks are oracles: every answer they can give is drawn     *)
(* with a set comprehension at the place the code asks for it.             *)
(***************************************************************************)
EXTENDS Integers, Sequences, FiniteSets, TLC

\* ------------------------------------------------------------------ bounds
\* connections served by the dispatcher thread
Conns == {1}
\* bytes asked of read_buffer_.reserve() (16384 in the code, scaled down)
ReserveSize == 3
\* plaintext bytes the peer sends to one connection over its life
MaxRx == 2
\* bytes upstream code writes to one connection over its life
MaxAppend == 3
\* longest buffer moved into the write buffer by one write()
MaxSlice == 2
\* most error records one failing engine call leaves in the error queue
MaxErrs == 2

\* ---------------------------------------------------------------- program
VARIABLES
    handshake_complete_,   \* [Conns -> BOOLEAN]
    state,                 \* [Conns -> {"Open", "Closed"}], Network::ConnectionImpl::state()
    read_buffer_,          \* [Conns -> Seq(byte)]
    write_buffer_,         \* [Conns -> Seq(slice)], a slice is a Seq(byte)
    err_queue,             \* the thread's engine error queue, Seq(connection id)
    \* ------------------------------------------------------- observations
    events,                \* [Conns -> Seq([type, hc])]: events raised to upstream
    closes,                \* [Conns -> Seq(reason)]: Close actions returned by handlers
    rx,                    \* [Conns -> Nat]: bytes the engine has returned so far
    appended,              \* [Conns -> Nat]: bytes written by upstream so far
    accepted,              \* [Conns -> Seq(byte)]: bytes the engine accepted, in order
    drained,               \* [Conns -> Seq(byte)]: bytes drained from write_buffer_
    assert_ok,             \* [Conns -> BOOLEAN]: no ASSERT of the connection has failed
    engine_calls,          \* [Conns -> SUBSET [op, hc]]: engine calls made, with
                           \* handshake_complete_ at the moment of the call
    handshakes,            \* [Conns -> SUBSET STRING]: how the handshake steps ended
    transport,             \* [Conns -> {"Unconnected", "Connecting", "Established"}]
    ssl_,                  \* [Conns -> [cert, alpn]]: what the engine session holds
    peer,                  \* [Conns -> [cert, alpn]]: what the peer presents and negotiates
    want_write,            \* [Conns -> [at, len]]: the engine write that last answered
                           \* WantWrite and was not retried yet (len 0: none)
    destroyed,             \* [Conns -> SUBSET {"filters", "ssl_", "base"}]: the parts
                           \* of the connection object already destroyed
    last                   \* the handler call that ran last, with its trace

vars == <<handshake_complete_, state, read_buffer_, write_buffer_, err_queue,
          events, closes, rx, appended, accepted, drained, assert_ok,
          engine_calls, handshakes, transport, ssl_, peer, want_write, destroyed,
          last>>

KeepOpen == "KeepOpen"
Close == "Close"

\* content of reserved memory the engine has not written
Uninit == 0

Min(a, b) == IF a < b THEN a ELSE b

\* the bytes i..j of a stream whose k-th byte has value k
Stream(i, j) == [k \in 1..(j - i + 1) |-> i + k - 1]

\* one connection together with the thread's error queue and the trace of
\* the running handler
Self(c) ==
    [id |-> c,
     handshake_complete_ |-> handshake_complete_[c],
     state |-> state[c],
     read_buffer_ |-> read_buffer_[c],
     write_buffer_ |-> write_buffer_[c],
     err_queue |-> err_queue,
     events |-> events[c],
     rx |-> rx[c],
     accepted |-> accepted[c],
     drained |-> drained[c],
     assert_ok |-> assert_ok[c],
     engine_calls |-> engine_calls[c],
     handshakes |-> handshakes[c],
     transport |-> transport[c],
     ssl_ |-> ssl_[c],
     peer |-> peer[c],
     want_write |-> want_write[c],
     destroyed |-> destroyed[c],
     tr |-> <<>>]

\* a trace entry: the call made, handshake_complete_ at that moment, its
\* numeric result, its classification or text, the length and the first byte
\* of the memory handed to the engine, and the engine's own condition
LogIo(s, op, n, err, len) ==
    [s EXCEPT !.tr = Append(@, [op |-> op, hc |-> s.handshake_complete_,
                                n |-> n, err |-> err, len |-> len,
                                at |-> 0, cond |-> err])]

Log(s, op, n, err) == LogIo(s, op, n, err, 0)

\* ----------------------------------------------------------------- engine
WantErrors == {"SSL_ERROR_WANT_READ", "SSL_ERROR_WANT_WRITE"}
FatalErrors == {"SSL_ERROR_SSL", "SSL_ERROR_SYSCALL", "SSL_ERROR_ZERO_RETURN"}

\* the non-positive answers of an engine call: rc, SSL_get_error(rc) and the
\* number of records the call left in the error queue
EngineFailures ==
    {[rc |-> -1, err |-> e, nerr |-> 0] : e \in WantErrors \cup {"SSL_ERROR_SYSCALL"}}
    \cup {[rc |-> 0, err |-> "SSL_ERROR_ZERO_RETURN", nerr |-> 0]}
    \cup {[rc |-> -1, err |-> "SSL_ERROR_SSL", nerr |-> k] : k \in 1..MaxErrs}

\* the engine queues n error records on behalf of connection s.id
ERR_put_error(s, n) ==
    [s EXCEPT !.err_queue = @ \o [i \in 1..n |-> s.id]]

\* SSL_get_error(ssl, rc) after the engine answered r: a record in the
\* thread's error queue, whoever left it there, makes a failed call an SSL
\* error
SSL_get_error(s, r) ==
    IF r.rc > 0 THEN "SSL_ERROR_NONE"
    ELSE IF s.err_queue # <<>> /\ r.err # "SSL_ERROR_NONE" THEN "SSL_ERROR_SSL"
    ELSE r.err

\* the engine call op, on the len bytes mem, answered r
EngineMem(s, op, r, mem, len) ==
    LET s1 == [ERR_put_error(s, r.nerr) EXCEPT
                  !.engine_calls = @ \cup {[op |-> op, hc |-> s.handshake_complete_]}]
    IN  [s1 EXCEPT !.tr = Append(@, [op |-> op, hc |-> s.handshake_complete_,
                                     n |-> r.rc, err |-> SSL_get_error(s1, r),
                                     len |-> len,
                                     at |-> IF mem = <<>> THEN 0 ELSE mem[1],
                                     cond |-> r.err])]

Engine(s, op, r, len) == EngineMem(s, op, r, <<>>, len)

NoCert == 0
NoSession == [cert |-> NoCert, alpn |-> <<>>]

\* what a peer can present: a certificate or none, an application protocol
\* or none
Peers == [cert : {NoCert, 1}, alpn : {<<>>, <<"h", "2">>}]

\* a handshake step: it completes, or fails after the engine has or has not
\* processed the peer's hello and certificate (flight)
SSL_do_handshake(s) ==
    {[rc |-> 1, err |-> "SSL_ERROR_NONE", nerr |-> 0, flight |-> TRUE]}
    \cup {[rc |-> f.rc, err |-> f.err, nerr |-> f.nerr, flight |-> b] :
            f \in EngineFailures,
            b \in IF s.ssl_ = s.peer THEN {TRUE} ELSE BOOLEAN}

SSL_get_peer_certificate(s) == s.ssl_.cert

SSL_get0_alpn_selected(s) == s.ssl_.alpn

\* SSL_read into a region of len bytes: 1..len bytes of the peer's stream,
\* or a failure
SSL_read(s, len) ==
    {[rc |-> n, err |-> "SSL_ERROR_NONE", nerr |-> 0] :
        n \in 1..Min(len, MaxRx - s.rx)} \cup EngineFailures

\* faulty variant: partial writes are enabled and the engine takes a part of
\* the buffer
SSL_write_Partial(s, len) ==
    {[rc |-> n, err |-> "SSL_ERROR_NONE", nerr |-> 0] : n \in 1..len}
    \cup EngineFailures

\* SSL_write of len bytes: partial writes are not enabled, so the engine
\* takes the whole buffer or nothing
SSL_write(s, len) ==
    {[rc |-> len, err |-> "SSL_ERROR_NONE", nerr |-> 0]} \cup EngineFailures

SSL_shutdown(s) ==
    {[rc |-> 1, err |-> "SSL_ERROR_NONE", nerr |-> 0],
     [rc |-> 0, err |-> "SSL_ERROR_SYSCALL", nerr |-> 0]}
    \cup {[rc |-> -1, err |-> "SSL_ERROR_SSL", nerr |-> k] : k \in 0..MaxErrs}

\* ------------------------------------------------------------ error queue
RECURSIVE ERR_get_error_loop(_)
ERR_get_error_loop(q) ==
    IF q = <<>> THEN q ELSE ERR_get_error_loop(Tail(q))

\* faulty variant: one ERR_get_error call instead of the loop
drainErrorQueue_Once(s) ==
    Log([s EXCEPT !.err_queue = IF @ = <<>> THEN @ ELSE Tail(@)],
        "drainErrorQueue", Min(1, Len(s.err_queue)), "")

drainErrorQueue(s) ==
    Log([s EXCEPT !.err_queue = ERR_get_error_loop(@)],
        "drainErrorQueue", Len(s.err_queue), "")

\* ------------------------------------------------------------- base class
\* Network::ConnectionImpl::closeSocket(): closes the transport
NetworkCloseSocket(s) ==
    [Log(s, "close", 0, "") EXCEPT !.state = "Closed"]

\* faulty variant: the shutdown notification is attempted whatever the flag says
closeSocket_Unconditional(s) ==
    LET s0 == Log(s, "closeSocket", 0, "")
    IN  {NetworkCloseSocket(drainErrorQueue(Engine(s0, "SSL_shutdown", r, 0))) :
            r \in SSL_shutdown(s0)}

\* faulty variant: the error queue is not drained after the shutdown attempt
closeSocket_NoDrain(s) ==
    LET s0 == Log(s, "closeSocket", 0, "")
    IN  IF s0.handshake_complete_
        THEN {NetworkCloseSocket(Engine(s0, "SSL_shutdown", r, 0)) :
                  r \in SSL_shutdown(s0)}
        ELSE {NetworkCloseSocket(s0)}

closeSocket(s) ==
    LET s0 == Log(s, "closeSocket", 0, "")
    IN  IF s0.handshake_complete_
        THEN {NetworkCloseSocket(drainErrorQueue(Engine(s0, "SSL_shutdown", r, 0))) :
                  r \in SSL_shutdown(s0)}
        ELSE {NetworkCloseSocket(s0)}

\* delivery of one event to the upstream callbacks
Deliver(s, ev) ==
    [Log(s, "raiseEvents", 0, ev)
        EXCEPT !.events = Append(@, [type |-> ev, hc |-> s.handshake_complete_])]

\* Network::ConnectionImpl::close(): closes the socket and raises LocalClose
close(s) ==
    {Deliver(s1, "LocalClose") : s1 \in closeSocket(s)}

\* raiseEvents(): a callback reacting to Connected may close the connection
\* before raiseEvents returns
raiseEvents(s, ev) ==
    LET s1 == Deliver(s, ev)
    IN  IF ev = "Connected" THEN {s1} \cup close(s1) ELSE {s1}

\* -------------------------------------------------------------- handshake
\* faulty variant: the event is raised before the flag is set
HandshakeDone_EventFirst(s, verified) ==
    IF ~verified
    THEN {[s |-> Log([s EXCEPT !.handshakes = @ \cup {"unverified"}],
                     "log", 0, "SSL peer verification failed"),
           action |-> Close, reason |-> "verification failure", result |-> <<>>]}
    ELSE {[s |-> [s2 EXCEPT !.handshake_complete_ = TRUE],
           action |-> IF s2.state = "Open" THEN KeepOpen ELSE Close,
           reason |-> IF s2.state = "Open" THEN "" ELSE "closed in callback",
               result |-> <<>>] :
             s2 \in raiseEvents([s EXCEPT !.handshakes = @ \cup {"verified"}],
                                "Connected")}

\* faulty variant: the result of verifyPeer is ignored
HandshakeDone_Unverified(s, verified) ==
    LET s1 == [s EXCEPT !.handshake_complete_ = TRUE,
                        !.handshakes = @ \cup {IF verified THEN "verified"
                                                           ELSE "unverified"}]
    IN  {[s |-> s2,
          action |-> IF s2.state = "Open" THEN KeepOpen ELSE Close,
          reason |-> IF s2.state = "Open" THEN "" ELSE "closed in callback",
               result |-> <<>>] :
            s2 \in raiseEvents(s1, "Connected")}

\* faulty variant: the flag is set before the peer is verified
HandshakeDone_FlagBeforeVerify(s, verified) ==
    LET s1 == [s EXCEPT !.handshake_complete_ = TRUE]
    IN  IF ~verified
        THEN {[s |-> Log([s1 EXCEPT !.handshakes = @ \cup {"unverified"}],
                         "log", 0, "SSL peer verification failed"),
               action |-> Close, reason |-> "verification failure", result |-> <<>>]}
        ELSE {[s |-> s2,
               action |-> IF s2.state = "Open" THEN KeepOpen ELSE Close,
               reason |-> IF s2.state = "Open" THEN "" ELSE "closed in callback",
               result |-> <<>>] :
                 s2 \in raiseEvents([s1 EXCEPT !.handshakes = @ \cup {"verified"}],
                                    "Connected")}

\* faulty variant: the connection state is not looked at after the event
HandshakeDone_NoStateCheck(s, verified) ==
    IF ~verified
    THEN {[s |-> Log([s EXCEPT !.handshakes = @ \cup {"unverified"}],
                     "log", 0, "SSL peer verification failed"),
           action |-> Close, reason |-> "verification failure", result |-> <<>>]}
    ELSE LET s1 == [s EXCEPT !.handshake_complete_ = TRUE,
                             !.handshakes = @ \cup {"verified"}]
         IN  {[s |-> s2, action |-> KeepOpen, reason |-> "", result |-> <<>>] :
                 s2 \in raiseEvents(s1, "Connected")}

\* rc == 1: the engine has completed the handshake
HandshakeDone(s, verified) ==
    IF ~verified
    THEN {[s |-> Log([s EXCEPT !.handshakes = @ \cup {"unverified"}],
                     "log", 0, "SSL peer verification failed"),
           action |-> Close, reason |-> "verification failure", result |-> <<>>]}
    ELSE LET s1 == [s EXCEPT !.handshake_complete_ = TRUE,
                             !.handshakes = @ \cup {"verified"}]
         IN  {[s |-> s2,
               action |-> IF s2.state = "Open" THEN KeepOpen ELSE Close,
               reason |-> IF s2.state = "Open" THEN "" ELSE "closed in callback",
               result |-> <<>>] :
                 s2 \in raiseEvents(s1, "Connected")}

\* faulty variant: WantWrite during the handshake is taken for a renegotiation
HandshakeError_WantWriteFatal(s, err) ==
    IF err = "SSL_ERROR_WANT_READ"
    THEN [s |-> s, action |-> KeepOpen, reason |-> "", result |-> <<>>]
    ELSE [s |-> drainErrorQueue(s), action |-> Close, reason |-> "handshake error",
          result |-> <<>>]

\* rc != 1: the switch on SSL_get_error
HandshakeError(s, err) ==
    IF err \in WantErrors
    THEN [s |-> s, action |-> KeepOpen, reason |-> "", result |-> <<>>]
    ELSE [s |-> drainErrorQueue(s), action |-> Close, reason |-> "handshake error",
          result |-> <<>>]

\* ctx_.verifyPeer(ssl): the policy's verdict v on the peer; it inspects the
\* session's certificate and queues no error record
verifyPeer(s, v) == Log(s, "verifyPeer", IF v THEN 1 ELSE 0, "")

\* the action doHandshake returns is written to the trace
Return(h) == [h EXCEPT !.s = Log(h.s, "return", 0, h.action)]

doHandshake(s) ==
    LET s0 == [s EXCEPT !.assert_ok = @ /\ ~s.handshake_complete_]
    IN  UNION {
          LET s1 == [Engine(s0, "SSL_do_handshake", r, 0) EXCEPT
                        !.ssl_ = IF r.flight THEN s.peer ELSE @]
              err == SSL_get_error(s1, r)
          IN  IF r.rc = 1
              THEN UNION {{Return(h) :
                            h \in HandshakeDone(verifyPeer(s1, v), v)} :
                          v \in BOOLEAN}
              ELSE {Return(HandshakeError([s1 EXCEPT !.handshakes = @ \cup {err}], err))}
          : r \in SSL_do_handshake(s0)}

\* ------------------------------------------------------------------- read
\* a reserved region: len_ bytes of memory nobody has written
Region(n) == [mem_ |-> [i \in 1..n |-> Uninit], len_ |-> n]

\* read_buffer_.reserve(size, slices, max): the space comes as one region,
\* or as the tail of the last chain element followed by a new element
reserve(size, max) ==
    {<<Region(size)>>}
    \cup (IF max >= 2 THEN {<<Region(a), Region(size - a)>> : a \in 1..(size - 1)}
                      ELSE {})

\* read_buffer_.commit(slices, n): appends the first len_ bytes of each of
\* the first n regions
RECURSIVE commit(_, _, _)
commit(buf, slices, n) ==
    IF n = 0 THEN buf
    ELSE commit(buf, slices, n - 1) \o SubSeq(slices[n].mem_, 1, slices[n].len_)

\* faulty variant: WantWrite after a read is waited for like WantRead
ReadError_WantWriteBlocks(s, action, err) ==
    IF err \in WantErrors
    THEN [s |-> s, action |-> action]
    ELSE [s |-> drainErrorQueue(s), action |-> Close]

\* the switch on SSL_get_error after a failed SSL_read
ReadError(s, action, err) ==
    IF err = "SSL_ERROR_WANT_READ"
    THEN [s |-> s, action |-> action]
    ELSE [s |-> drainErrorQueue(s), action |-> Close]

\* faulty variant: the region is not shrunk to the bytes received
ReadResult_KeepLen(F, i, r) ==
    LET s1 == Engine(F.s, "SSL_read", r, F.slices[i].len_)
    IN  IF r.rc > 0
        THEN [F EXCEPT
                !.s = [s1 EXCEPT !.rx = @ + r.rc],
                !.slices[i] =
                    [mem_ |-> Stream(F.s.rx + 1, F.s.rx + r.rc)
                              \o SubSeq(F.slices[i].mem_, r.rc + 1,
                                        Len(F.slices[i].mem_)),
                     len_ |-> F.slices[i].len_],
                !.slices_to_commit = @ + 1]
        ELSE LET e == ReadError(s1, F.action, SSL_get_error(s1, r))
             IN  [F EXCEPT !.s = e.s, !.action = e.action,
                           !.keep_reading = FALSE, !.brk = TRUE]

\* faulty variant: a region that was not filled ends the for loop
ReadResult_StopAfterPartial(F, i, r) ==
    LET s1 == Engine(F.s, "SSL_read", r, F.slices[i].len_)
    IN  IF r.rc > 0
        THEN [F EXCEPT
                !.s = [s1 EXCEPT !.rx = @ + r.rc],
                !.slices[i] =
                    [mem_ |-> Stream(F.s.rx + 1, F.s.rx + r.rc)
                              \o SubSeq(F.slices[i].mem_, r.rc + 1,
                                        Len(F.slices[i].mem_)),
                     len_ |-> r.rc],
                !.slices_to_commit = @ + 1,
                !.brk = r.rc < F.slices[i].len_]
        ELSE LET e == ReadError(s1, F.action, SSL_get_error(s1, r))
             IN  [F EXCEPT !.s = e.s, !.action = e.action,
                           !.keep_reading = FALSE, !.brk = TRUE]

\* faulty variant: a failed read does not leave the for loop
ReadResult_NoBreak(F, i, r) ==
    LET s1 == Engine(F.s, "SSL_read", r, F.slices[i].len_)
    IN  IF r.rc > 0
        THEN [F EXCEPT
                !.s = [s1 EXCEPT !.rx = @ + r.rc],
                !.slices[i] =
                    [mem_ |-> Stream(F.s.rx + 1, F.s.rx + r.rc)
                              \o SubSeq(F.slices[i].mem_, r.rc + 1,
                                        Len(F.slices[i].mem_)),
                     len_ |-> r.rc],
                !.slices_to_commit = @ + 1]
        ELSE LET e == ReadError(s1, F.action, SSL_get_error(s1, r))
             IN  [F EXCEPT !.s = e.s, !.action = e.action,
                           !.keep_reading = FALSE]

\* the body of the for loop, for the answer r of SSL_read on slices[i]
ReadResult(F, i, r) ==
    LET s1 == Engine(F.s, "SSL_read", r, F.slices[i].len_)
    IN  IF r.rc > 0
        THEN [F EXCEPT
                !.s = [s1 EXCEPT !.rx = @ + r.rc],
                !.slices[i] =
                    [mem_ |-> Stream(F.s.rx + 1, F.s.rx + r.rc)
                              \o SubSeq(F.slices[i].mem_, r.rc + 1,
                                        Len(F.slices[i].mem_)),
                     len_ |-> r.rc],
                !.slices_to_commit = @ + 1]
        ELSE LET e == ReadError(s1, F.action, SSL_get_error(s1, r))
             IN  [F EXCEPT !.s = e.s, !.action = e.action,
                           !.keep_reading = FALSE, !.brk = TRUE]

RECURSIVE ReadFor(_, _)
ReadFor(F, i) ==
    IF i > Len(F.slices) THEN {F}
    ELSE UNION {LET G == ReadResult(F, i, r)
                IN  IF G.brk THEN {G} ELSE ReadFor(G, i + 1) :
                    r \in SSL_read(F.s, F.slices[i].len_)}

\* the commit after the for loop
ReadCommit(F) ==
    IF F.slices_to_commit > 0
    THEN [F EXCEPT !.s = Log([F.s EXCEPT !.read_buffer_ =
                                  commit(@, F.slices, F.slices_to_commit)],
                             "commit", F.slices_to_commit, "")]
    ELSE F

RECURSIVE ReadWhile(_)
ReadWhile(L) ==
    IF ~L.keep_reading
    THEN {[s |-> L.s, action |-> L.action,
           reason |-> IF L.action = Close THEN "read error" ELSE "",
           result |-> <<>>]}
    ELSE UNION {UNION {
            LET G == ReadCommit(F)
            IN  ReadWhile([s |-> G.s, keep_reading |-> G.keep_reading,
                           action |-> G.action]) :
            F \in ReadFor([s |-> Log(L.s, "reserve", Len(sl), ""),
                           slices |-> sl, slices_to_commit |-> 0,
                           keep_reading |-> L.keep_reading,
                           action |-> L.action, brk |-> FALSE], 1)} :
         sl \in reserve(ReserveSize, 2)}

\* faulty variant: the handshake's action is checked, the flag is not
doReadFromSocket_NoRecheck(s) ==
    LET loop(t) == ReadWhile([s |-> t, keep_reading |-> TRUE, action |-> KeepOpen])
    IN  IF ~s.handshake_complete_
        THEN UNION {IF h.action = Close
                    THEN {h} ELSE loop(h.s) : h \in doHandshake(s)}
        ELSE loop(s)

doReadFromSocket(s) ==
    LET loop(t) == ReadWhile([s |-> t, keep_reading |-> TRUE, action |-> KeepOpen])
    IN  IF ~s.handshake_complete_
        THEN UNION {IF h.action = Close \/ ~h.s.handshake_complete_
                    THEN {h} ELSE loop(h.s) : h \in doHandshake(s)}
        ELSE loop(s)

\* ------------------------------------------------------------------ write
RECURSIVE length(_)
length(buf) == IF buf = <<>> THEN 0 ELSE Len(Head(buf)) + length(Tail(buf))

RECURSIVE Flatten(_)
Flatten(buf) == IF buf = <<>> THEN <<>> ELSE Head(buf) \o Flatten(Tail(buf))

getRawSlices(buf) ==
    [i \in 1..Len(buf) |-> [mem_ |-> buf[i], len_ |-> Len(buf[i])]]

\* write_buffer_.drain(n): removes n bytes from the front
RECURSIVE drain(_, _)
drain(buf, n) ==
    IF n = 0 \/ buf = <<>> THEN buf
    ELSE IF n >= Len(Head(buf)) THEN drain(Tail(buf), n - Len(Head(buf)))
    ELSE <<SubSeq(Head(buf), n + 1, Len(Head(buf)))>> \o Tail(buf)

\* faulty variant: a slice answered WantWrite is counted as written
WriteResult_CountBlocked(W, i, r) ==
    LET s0 == EngineMem(W.s, "SSL_write", r, W.slices[i].mem_, W.slices[i].len_)
        want == r.rc <= 0 /\ SSL_get_error(s0, r) = "SSL_ERROR_WANT_WRITE"
        s1 == [s0 EXCEPT !.want_write =
                   IF want THEN [at |-> W.slices[i].mem_[1], len |-> W.slices[i].len_]
                           ELSE [at |-> 0, len |-> 0]]
    IN  IF r.rc > 0
        THEN [W EXCEPT
                !.s = [s1 EXCEPT !.accepted =
                           @ \o SubSeq(W.slices[i].mem_, 1, r.rc)],
                !.bytes_written = @ + r.rc]
        ELSE IF SSL_get_error(s0, r) = "SSL_ERROR_WANT_WRITE"
        THEN [W EXCEPT !.s = s1, !.brk = TRUE,
                       !.bytes_written = @ + W.slices[i].len_]
        ELSE [W EXCEPT !.s = drainErrorQueue(s1), !.brk = TRUE, !.ret = TRUE]

\* faulty variant: WantWrite does not end the loop
WriteResult_NoBreak(W, i, r) ==
    LET s0 == EngineMem(W.s, "SSL_write", r, W.slices[i].mem_, W.slices[i].len_)
        want == r.rc <= 0 /\ SSL_get_error(s0, r) = "SSL_ERROR_WANT_WRITE"
        s1 == [s0 EXCEPT !.want_write =
                   IF want THEN [at |-> W.slices[i].mem_[1], len |-> W.slices[i].len_]
                           ELSE [at |-> 0, len |-> 0]]
    IN  IF r.rc > 0
        THEN [W EXCEPT
                !.s = [s1 EXCEPT !.accepted =
                           @ \o SubSeq(W.slices[i].mem_, 1, r.rc)],
                !.bytes_written = @ + r.rc]
        ELSE IF SSL_get_error(s0, r) = "SSL_ERROR_WANT_WRITE"
        THEN [W EXCEPT !.s = s1]
        ELSE [W EXCEPT !.s = drainErrorQueue(s1), !.brk = TRUE, !.ret = TRUE]

\* the body of the for loop, for the answer r of SSL_write on slices[i];
\* ret is set where the code returns from inside the loop
WriteResult(W, i, r) ==
    LET s0 == EngineMem(W.s, "SSL_write", r, W.slices[i].mem_, W.slices[i].len_)
        want == r.rc <= 0 /\ SSL_get_error(s0, r) = "SSL_ERROR_WANT_WRITE"
        s1 == [s0 EXCEPT !.want_write =
                   IF want THEN [at |-> W.slices[i].mem_[1], len |-> W.slices[i].len_]
                           ELSE [at |-> 0, len |-> 0]]
    IN  IF r.rc > 0
        THEN [W EXCEPT
                !.s = [s1 EXCEPT !.accepted =
                           @ \o SubSeq(W.slices[i].mem_, 1, r.rc)],
                !.bytes_written = @ + r.rc]
        ELSE IF SSL_get_error(s0, r) = "SSL_ERROR_WANT_WRITE"
        THEN [W EXCEPT !.s = s1, !.brk = TRUE]
        ELSE [W EXCEPT !.s = drainErrorQueue(s1), !.brk = TRUE, !.ret = TRUE]

RECURSIVE WriteFor(_, _)
WriteFor(W, i) ==
    IF i > Len(W.slices) THEN {W}
    ELSE UNION {LET V == WriteResult(W, i, r)
                IN  IF V.brk THEN {V} ELSE WriteFor(V, i + 1) :
                    r \in SSL_write(W.s, W.slices[i].len_)}

\* what follows the for loop: the drain and the return value
WriteFinish(W) ==
    IF W.ret
    THEN [s |-> W.s, action |-> Close, reason |-> "write error", result |-> <<>>]
    ELSE IF W.bytes_written > 0
    THEN [s |-> Log([W.s EXCEPT
                       !.write_buffer_ = drain(@, W.bytes_written),
                       !.drained = @ \o SubSeq(Flatten(W.s.write_buffer_), 1,
                                               W.bytes_written)],
                    "drain", W.bytes_written, ""),
          action |-> KeepOpen, reason |-> "", result |-> <<>>]
    ELSE [s |-> W.s, action |-> KeepOpen, reason |-> "", result |-> <<>>]

\* faulty variant: the error queue is drained when there is nothing to write
doWriteToSocket_DrainOnEmpty(s) ==
    LET loop(t) ==
            IF length(t.write_buffer_) = 0
            THEN {[s |-> drainErrorQueue(t), action |-> KeepOpen, reason |-> "",
                   result |-> <<>>]}
            ELSE {WriteFinish(W) :
                    W \in WriteFor([s |-> t,
                                    slices |-> getRawSlices(t.write_buffer_),
                                    bytes_written |-> 0,
                                    brk |-> FALSE, ret |-> FALSE], 1)}
    IN  IF ~s.handshake_complete_
        THEN UNION {IF h.action = Close \/ ~h.s.handshake_complete_
                    THEN {h} ELSE loop(h.s) : h \in doHandshake(s)}
        ELSE loop(s)

\* faulty variant: the handshake's action is checked, the flag is not
doWriteToSocket_NoRecheck(s) ==
    LET loop(t) ==
            IF length(t.write_buffer_) = 0
            THEN {[s |-> t, action |-> KeepOpen, reason |-> "", result |-> <<>>]}
            ELSE {WriteFinish(W) :
                    W \in WriteFor([s |-> t,
                                    slices |-> getRawSlices(t.write_buffer_),
                                    bytes_written |-> 0,
                                    brk |-> FALSE, ret |-> FALSE], 1)}
    IN  IF ~s.handshake_complete_
        THEN UNION {IF h.action = Close
                    THEN {h} ELSE loop(h.s) : h \in doHandshake(s)}
        ELSE loop(s)

doWriteToSocket(s) ==
    LET loop(t) ==
            IF length(t.write_buffer_) = 0
            THEN {[s |-> t, action |-> KeepOpen, reason |-> "", result |-> <<>>]}
            ELSE {WriteFinish(W) :
                    W \in WriteFor([s |-> t,
                                    slices |-> getRawSlices(t.write_buffer_),
                                    bytes_written |-> 0,
                                    brk |-> FALSE, ret |-> FALSE], 1)}
    IN  IF ~s.handshake_complete_
        THEN UNION {IF h.action = Close \/ ~h.s.handshake_complete_
                    THEN {h} ELSE loop(h.s) : h \in doHandshake(s)}
        ELSE loop(s)

\* ------------------------------------------------------------- dispatcher
\* what the event loop does with the action a handler returned: on Close it
\* closes the socket, unless a callback already did, and raises RemoteClose
PostIo(r) ==
    IF r.action = Close /\ r.s.state = "Open"
    THEN {Deliver(s1, "RemoteClose") : s1 \in closeSocket(r.s)}
    ELSE {r.s}

\* a call that is not an I/O handler, on connection s, returning result
Called(s, result) ==
    [s |-> s, action |-> KeepOpen, reason |-> "", result |-> result]

\* the state after handler h of connection c returned r and the event loop
\* left the connection as f
Update(c, h, r, f) ==
    /\ handshake_complete_' = [handshake_complete_ EXCEPT ![c] = f.handshake_complete_]
    /\ state' = [state EXCEPT ![c] = f.state]
    /\ read_buffer_' = [read_buffer_ EXCEPT ![c] = f.read_buffer_]
    /\ write_buffer_' = [write_buffer_ EXCEPT ![c] = f.write_buffer_]
    /\ err_queue' = f.err_queue
    /\ events' = [events EXCEPT ![c] = f.events]
    /\ closes' = [closes EXCEPT ![c] =
                      IF r.action = Close THEN Append(@, r.reason) ELSE @]
    /\ rx' = [rx EXCEPT ![c] = f.rx]
    /\ accepted' = [accepted EXCEPT ![c] = f.accepted]
    /\ drained' = [drained EXCEPT ![c] = f.drained]
    /\ assert_ok' = [assert_ok EXCEPT ![c] = f.assert_ok]
    /\ engine_calls' = [engine_calls EXCEPT ![c] = f.engine_calls]
    /\ handshakes' = [handshakes EXCEPT ![c] = f.handshakes]
    /\ transport' = [transport EXCEPT ![c] = f.transport]
    /\ ssl_' = [ssl_ EXCEPT ![c] = f.ssl_]
    /\ peer' = [peer EXCEPT ![c] = f.peer]
    /\ want_write' = [want_write EXCEPT ![c] = f.want_write]
    /\ destroyed' = [destroyed EXCEPT ![c] = f.destroyed]
    /\ last' = [conn |-> c, handler |-> h, action |-> r.action,
                tr |-> r.s.tr,
                post |-> SubSeq(f.tr, Len(r.s.tr) + 1, Len(f.tr)),
                ret_queue |-> r.s.err_queue,
                pre_err_queue |-> err_queue,
                pre_hc |-> handshake_complete_[c],
                pre_rx |-> rx[c],
                pre_read_buffer_ |-> read_buffer_[c],
                pre_write_buffer_ |-> write_buffer_[c],
                pre_accepted |-> accepted[c],
                pre_want_write |-> want_write[c],
                result |-> r.result]

onReadReady(c) ==
    /\ state[c] = "Open" /\ transport[c] = "Established"
    /\ \E r \in doReadFromSocket(Self(c)) :
         \E f \in PostIo(r) : Update(c, "doReadFromSocket", r, f)
    /\ UNCHANGED appended

onWriteReady(c) ==
    /\ state[c] = "Open" /\ transport[c] = "Established"
    /\ \E r \in doWriteToSocket(Self(c)) :
         \E f \in PostIo(r) : Update(c, "doWriteToSocket", r, f)
    /\ UNCHANGED appended

\* Network::ConnectionImpl::write(): upstream moves a buffer of n bytes to
\* the tail of the write buffer
write(c) ==
    /\ state[c] = "Open"
    /\ \E n \in 1..MaxSlice :
         /\ appended[c] + n <= MaxAppend
         /\ LET s == Self(c)
                f == [s EXCEPT !.write_buffer_ =
                          Append(@, Stream(appended[c] + 1, appended[c] + n))]
            IN  Update(c, "write", Called(s, <<>>), f)
         /\ appended' = [appended EXCEPT ![c] = @ + n]

\* upstream closes the connection outside of any handler
LocalClose(c) ==
    /\ state[c] = "Open"
    /\ \E f \in close(Self(c)) :
         Update(c, "close", Called(Self(c), <<>>), f)
    /\ UNCHANGED appended

NoCall ==
    [conn |-> 0, handler |-> "none", action |-> KeepOpen,
     tr |-> <<>>, post |-> <<>>, ret_queue |-> <<>>, pre_err_queue |-> <<>>,
     pre_hc |-> FALSE, pre_rx |-> 0, pre_read_buffer_ |-> <<>>,
     pre_write_buffer_ |-> <<>>, pre_accepted |-> <<>>,
     pre_want_write |-> [at |-> 0, len |-> 0], result |-> <<>>]

\* a connection is accepted (its transport is established) or is a client
\* connection on which connect() was not called yet; in this specification
\* the peer presents no certificate and negotiates no protocol
Init ==
    /\ handshake_complete_ = [c \in Conns |-> FALSE]
    /\ state = [c \in Conns |-> "Open"]
    /\ read_buffer_ = [c \in Conns |-> <<>>]
    /\ write_buffer_ = [c \in Conns |-> <<>>]
    /\ err_queue = <<>>
    /\ events = [c \in Conns |-> <<>>]
    /\ closes = [c \in Conns |-> <<>>]
    /\ rx = [c \in Conns |-> 0]
    /\ appended = [c \in Conns |-> 0]
    /\ accepted = [c \in Conns |-> <<>>]
    /\ drained = [c \in Conns |-> <<>>]
    /\ assert_ok = [c \in Conns |-> TRUE]
    /\ engine_calls = [c \in Conns |-> {}]
    /\ handshakes = [c \in Conns |-> {}]
    /\ transport \in [Conns -> {"Unconnected", "Established"}]
    /\ ssl_ = [c \in Conns |-> NoSession]
    /\ peer = [c \in Conns |-> NoSession]
    /\ want_write = [c \in Conns |-> [at |-> 0, len |-> 0]]
    /\ destroyed = [c \in Conns |-> {}]
    /\ last = NoCall

\* ----------------------------------------------------------------- client
\* Network::ConnectionImpl::doConnect(): issues the connect call; the
\* transport is established later
doConnect(s) == [Log(s, "doConnect", 0, "") EXCEPT !.transport = "Connecting"]

\* faulty variant: the handshake is started before the transport is established
connect_HandshakeFirst(s) == {doConnect(h.s) : h \in doHandshake(s)}

\* ClientConnectionImpl::connect()
connect(s) == {doConnect(s)}

\* ConnectionImpl::onConnected()
onConnected(s) ==
    [Log(s, "onConnected", 0, "") EXCEPT !.assert_ok = @ /\ ~s.handshake_complete_]

Connect(c) ==
    /\ state[c] = "Open" /\ transport[c] = "Unconnected"
    /\ \E f \in connect(Self(c)) : Update(c, "connect", Called(Self(c), <<>>), f)
    /\ UNCHANGED appended

\* the event loop reports the transport connection established: it calls
\* onConnected(), and only from then on the I/O handlers
TransportConnected(c) ==
    /\ state[c] = "Open" /\ transport[c] = "Connecting"
    /\ Update(c, "onConnected", Called(Self(c), <<>>),
              [onConnected(Self(c)) EXCEPT !.transport = "Established"])
    /\ UNCHANGED appended

\* --------------------------------------------------------------- metadata
SHA256_DIGEST_LENGTH == 32

\* X509_digest(cert, EVP_sha256(), ...): SHA256_DIGEST_LENGTH bytes that
\* depend on the certificate
X509_digest(cert) ==
    [i \in 1..SHA256_DIGEST_LENGTH |-> (cert * 151 + i * 37) % 256]

HexDigits ==
    <<"0", "1", "2", "3", "4", "5", "6", "7", "8", "9", "a", "b", "c", "d", "e", "f">>

\* Hex::encode(): two hexadecimal digits for each byte
HexEncode(bytes) ==
    [i \in 1..(2 * Len(bytes)) |->
        IF i % 2 = 1 THEN HexDigits[(bytes[(i + 1) \div 2] \div 16) + 1]
                     ELSE HexDigits[(bytes[i \div 2] % 16) + 1]]

\* ConnectionImpl::sha256PeerCertificateDigest(); a string is a sequence of
\* characters
sha256PeerCertificateDigest(s) ==
    LET cert == SSL_get_peer_certificate(s)
    IN  IF cert = NoCert THEN <<>> ELSE HexEncode(X509_digest(cert))

\* ConnectionImpl::nextProtocol()
nextProtocol(s) == SSL_get0_alpn_selected(s)

DigestQuery(c) ==
    /\ Update(c, "sha256PeerCertificateDigest",
              Called(Self(c), sha256PeerCertificateDigest(Self(c))), Self(c))
    /\ UNCHANGED appended

ProtocolQuery(c) ==
    /\ Update(c, "nextProtocol", Called(Self(c), nextProtocol(Self(c))), Self(c))
    /\ UNCHANGED appended

Next ==
    \E c \in Conns :
        \/ onReadReady(c)
        \/ onWriteReady(c)
        \/ write(c)
        \/ LocalClose(c)
        \/ Connect(c)
        \/ TransportConnected(c)

Spec == Init /\ [][Next]_vars

\* accepted connections with every kind of peer, their handlers and the
\* metadata queries of upstream code; nothing is written to them
InitMeta ==
    /\ handshake_complete_ = [c \in Conns |-> FALSE]
    /\ state = [c \in Conns |-> "Open"]
    /\ read_buffer_ = [c \in Conns |-> <<>>]
    /\ write_buffer_ = [c \in Conns |-> <<>>]
    /\ err_queue = <<>>
    /\ events = [c \in Conns |-> <<>>]
    /\ closes = [c \in Conns |-> <<>>]
    /\ rx = [c \in Conns |-> 0]
    /\ appended = [c \in Conns |-> 0]
    /\ accepted = [c \in Conns |-> <<>>]
    /\ drained = [c \in Conns |-> <<>>]
    /\ assert_ok = [c \in Conns |-> TRUE]
    /\ engine_calls = [c \in Conns |-> {}]
    /\ handshakes = [c \in Conns |-> {}]
    /\ transport = [c \in Conns |-> "Established"]
    /\ ssl_ = [c \in Conns |-> NoSession]
    /\ peer \in [Conns -> Peers]
    /\ want_write = [c \in Conns |-> [at |-> 0, len |-> 0]]
    /\ destroyed = [c \in Conns |-> {}]
    /\ last = NoCall

NextMeta ==
    \E c \in Conns :
        \/ onReadReady(c)
        \/ onWriteReady(c)
        \/ LocalClose(c)
        \/ DigestQuery(c)
        \/ ProtocolQuery(c)

SpecMeta == InitMeta /\ [][NextMeta]_vars

\* ------------------------------------------------------------ destruction
\* what a filter's destructor asks the connection for
FilterQueries == {"none", "sha256PeerCertificateDigest", "nextProtocol"}

\* the answer to query q of a filter: the getter's value while the session
\* lives; a query of a freed session has no defined answer
Query(s, q) ==
    LET v == IF q = "sha256PeerCertificateDigest"
             THEN sha256PeerCertificateDigest(s) ELSE nextProtocol(s)
    IN  IF q = "none" THEN {<<>>}
        ELSE IF "ssl_" \in s.destroyed THEN {<<>>, v}
        ELSE {v}

\* filter_manager_.destroyFilters(): the filters' destructors run, and each
\* may query the connection
destroyFilters(h) ==
    LET s0 == Log(h.s, "destroyFilters", 0, "")
    IN  UNION {
          {[s |-> [(IF q = "none" THEN s0
                    ELSE Log(s0, "query", IF "ssl_" \in s0.destroyed THEN 0 ELSE 1, q))
                      EXCEPT !.destroyed = @ \cup {"filters"}],
            action |-> KeepOpen, reason |-> "", result |-> v] :
              v \in Query(s0, q)} :
          q \in FilterQueries}

\* faulty variant: the filters are left to the base class destructor
SslDestructor_LeaveFilters(h) == {h}

\* the body of ~ConnectionImpl()
SslDestructor(h) == destroyFilters(h)

\* the members of Ssl::ConnectionImpl are destroyed: ssl_ frees the session
SSL_free(h) ==
    [h EXCEPT !.s = [Log(h.s, "SSL_free", 0, "") EXCEPT !.destroyed = @ \cup {"ssl_"}]]

\* ~Network::ConnectionImpl(): the filter manager goes, and with it the
\* filters that are still there
NetworkDestructor(h) ==
    {[g EXCEPT !.s = [Log(g.s, "~Network::ConnectionImpl", 0, "")
                         EXCEPT !.destroyed = @ \cup {"base"}]] :
        g \in IF "filters" \in h.s.destroyed THEN {h} ELSE destroyFilters(h)}

\* the connection object is deleted: destructor body, members, base class
Delete(s) ==
    UNION {NetworkDestructor(SSL_free(h)) : h \in SslDestructor(Called(s, <<>>))}

\* the owner releases a connection whose socket is closed
Destroy(c) ==
    /\ state[c] = "Closed" /\ destroyed[c] = {}
    /\ \E r \in Delete(Self(c)) : Update(c, "~ConnectionImpl", r, r.s)
    /\ UNCHANGED appended

\* accepted connections with every kind of peer, from the first handler call
\* to the deletion of the connection object
NextLife ==
    \E c \in Conns :
        \/ onReadReady(c)
        \/ onWriteReady(c)
        \/ LocalClose(c)
        \/ Destroy(c)

SpecLife == InitMeta /\ [][NextLife]_vars

\* two accepted connections served by one thread: they share the engine's
\* error queue.  Nothing is written to them, and only the socket of
\* connection 1 is ever reported readable
SharedConns == {1, 2}

InitShared ==
    /\ handshake_complete_ = [c \in SharedConns |-> FALSE]
    /\ state = [c \in SharedConns |-> "Open"]
    /\ read_buffer_ = [c \in SharedConns |-> <<>>]
    /\ write_buffer_ = [c \in SharedConns |-> <<>>]
    /\ err_queue = <<>>
    /\ events = [c \in SharedConns |-> <<>>]
    /\ closes = [c \in SharedConns |-> <<>>]
    /\ rx = [c \in SharedConns |-> 0]
    /\ appended = [c \in SharedConns |-> 0]
    /\ accepted = [c \in SharedConns |-> <<>>]
    /\ drained = [c \in SharedConns |-> <<>>]
    /\ assert_ok = [c \in SharedConns |-> TRUE]
    /\ engine_calls = [c \in SharedConns |-> {}]
    /\ handshakes = [c \in SharedConns |-> {}]
    /\ transport = [c \in SharedConns |-> "Established"]
    /\ ssl_ = [c \in SharedConns |-> NoSession]
    /\ peer = [c \in SharedConns |-> NoSession]
    /\ want_write = [c \in SharedConns |-> [at |-> 0, len |-> 0]]
    /\ destroyed = [c \in SharedConns |-> {}]
    /\ last = NoCall

NextShared ==
    \/ onReadReady(1)
    \/ \E c \in SharedConns :
        \/ onWriteReady(c)
        \/ LocalClose(c)

SpecShared == InitShared /\ [][NextShared]_vars

\* ------------------------------------------------------------- properties
IoHandlers == {"doReadFromSocket", "doWriteToSocket"}

\* the positions of the calls of op in a trace
Calls(tr, op) == {i \in 1..Len(tr) : tr[i].op = op}

Connected(c) == {i \in 1..Len(events[c]) : events[c][i].type = "Connected"}

IsPrefix(a, b) == Len(a) <= Len(b) /\ SubSeq(b, 1, Len(a)) = a

\* the spec's connection state
Phase(hc, st) ==
    IF st = "Closed" THEN "Closed" ELSE IF hc THEN "Open" ELSE "Handshaking"

\* C1: as long as every handshake step of a connection has answered WantRead
\* or WantWrite, every doReadFromSocket/doWriteToSocket call has returned
\* KeepOpen, handshake_complete_ is false, no Connected event has been
\* raised and the engine has not been asked to read or write.
C1_HandshakePending ==
    \A c \in Conns :
        handshakes[c] \subseteq WantErrors =>
            /\ ~handshake_complete_[c]
            /\ closes[c] = <<>>
            /\ Connected(c) = {}
            /\ \A e \in engine_calls[c] : e.op = "SSL_do_handshake"
            /\ (last.conn = c /\ last.handler \in IoHandlers
                    => last.action = KeepOpen /\ Phase(FALSE, state[c]) = "Handshaking")

\* both blocking answers have been given, by calls of both handlers
C1_Witness ==
    \E c \in Conns :
        /\ handshakes[c] = WantErrors
        /\ last.conn = c /\ last.handler = "doWriteToSocket"
        /\ last.tr # <<>> /\ last.tr[1].err = "SSL_ERROR_WANT_WRITE"
        /\ write_buffer_[c] # <<>>

\* C2: a connection raises at most one Connected event over its life,
\* exactly one once the handshake has succeeded and the peer was verified,
\* and handshake_complete_ is true when the event is delivered.
C2_ConnectedOnce ==
    \A c \in Conns :
        /\ Cardinality(Connected(c)) <= 1
        /\ ("verified" \in handshakes[c] <=> Cardinality(Connected(c)) = 1)
        /\ \A i \in Connected(c) : events[c][i].hc
        /\ (Connected(c) # {} => handshake_complete_[c])

\* a read-ready event handled after the one that completed the handshake
C2_Witness ==
    \E c \in Conns :
        /\ Cardinality(Connected(c)) = 1
        /\ last.conn = c /\ last.handler = "doReadFromSocket" /\ last.pre_hc
        /\ state[c] = "Open"

\* C3: when the handshake step succeeds and peer verification fails, no
\* Connected event is raised, handshake_complete_ stays false, and exactly
\* one close is reported, with the reason verification failure.
C3_VerificationFailure ==
    \A c \in Conns :
        "unverified" \in handshakes[c] =>
            /\ Connected(c) = {}
            /\ ~handshake_complete_[c]
            /\ closes[c] = <<"verification failure">>
            /\ state[c] = "Closed"

C3_Witness ==
    \E c \in Conns :
        /\ "unverified" \in handshakes[c]
        /\ last.conn = c /\ last.action = Close
        /\ Calls(last.tr, "verifyPeer") # {}

\* the bytes the last call added to the read buffer
Committed(c) ==
    SubSeq(read_buffer_[c], Len(last.pre_read_buffer_) + 1, Len(read_buffer_[c]))

\* the answer that ended the read loop of the last call
LastRead == last.tr[CHOOSE i \in Calls(last.tr, "SSL_read") :
                        \A j \in Calls(last.tr, "SSL_read") : j <= i]

\* C4: a doReadFromSocket call that reaches the read loop appends to the
\* read buffer exactly the bytes the engine returned during the call, in
\* order and with no byte of unwritten memory, and does so both when the
\* loop ends on WantRead (KeepOpen) and when it ends on a fatal answer
\* (Close).
C4_ReadCommit ==
    \A c \in Conns :
        (last.conn = c /\ last.handler = "doReadFromSocket"
            /\ Calls(last.tr, "SSL_read") # {}) =>
            /\ IsPrefix(last.pre_read_buffer_, read_buffer_[c])
            /\ Committed(c) = Stream(last.pre_rx + 1, rx[c])
            /\ \A i \in 1..Len(read_buffer_[c]) : read_buffer_[c][i] # Uninit
            /\ (LastRead.err = "SSL_ERROR_WANT_READ" <=> last.action = KeepOpen)
            /\ (LastRead.err # "SSL_ERROR_WANT_READ" <=> last.action = Close)

\* bytes received into a partly filled region, then a fatal answer
C4_Witness ==
    \E c \in Conns :
        /\ last.conn = c /\ last.handler = "doReadFromSocket"
        /\ last.action = Close
        /\ Committed(c) # <<>>
        /\ \E i \in Calls(last.tr, "SSL_read") :
               last.tr[i].n > 0 /\ last.tr[i].n < last.tr[i].len

\* the number of bytes the engine accepted during the last call
AcceptedNow(c) == Len(accepted[c]) - Len(last.pre_accepted)

WriteLoopRan(c) ==
    /\ last.conn = c /\ last.handler = "doWriteToSocket"
    /\ Calls(last.tr, "SSL_write") # {}

\* C5 as stated: every doWriteToSocket call that reaches the write loop
\* removes from the front of the write buffer exactly the bytes the engine
\* accepted during the call, whatever ended the loop.
C5_DrainAlways ==
    \A c \in Conns :
        WriteLoopRan(c) =>
            Flatten(write_buffer_[c]) =
                SubSeq(Flatten(last.pre_write_buffer_), AcceptedNow(c) + 1,
                       length(last.pre_write_buffer_))

\* C5 amended: a call whose loop ends with all slices written or on
\* WantWrite returns KeepOpen and has removed from the front of the write
\* buffer exactly the bytes the engine accepted during the call; a call
\* whose loop ends on a fatal answer returns Close and leaves the write
\* buffer as it was.
C5_DrainUnlessFatal ==
    \A c \in Conns :
        WriteLoopRan(c) =>
            LET fatal == \E i \in Calls(last.tr, "SSL_write") :
                            last.tr[i].n <= 0 /\ last.tr[i].err # "SSL_ERROR_WANT_WRITE"
            IN  IF fatal
                THEN /\ last.action = Close
                     /\ write_buffer_[c] = last.pre_write_buffer_
                ELSE /\ last.action = KeepOpen
                     /\ Flatten(write_buffer_[c]) =
                            SubSeq(Flatten(last.pre_write_buffer_), AcceptedNow(c) + 1,
                                   length(last.pre_write_buffer_))

\* two slices buffered, the first accepted, the second answered WantWrite
C5_Witness ==
    \E c \in Conns :
        /\ WriteLoopRan(c)
        /\ Len(last.pre_write_buffer_) = 2
        /\ AcceptedNow(c) = Len(last.pre_write_buffer_[1])
        /\ last.tr[Len(last.tr) - 1].err = "SSL_ERROR_WANT_WRITE"
        /\ last.action = KeepOpen
        /\ write_buffer_[c] = Tail(last.pre_write_buffer_)

Fatal(e) ==
    /\ e.n <= 0
    /\ \/ e.op = "SSL_do_handshake" /\ e.err \notin WantErrors
       \/ e.op = "SSL_read" /\ e.err # "SSL_ERROR_WANT_READ"
       \/ e.op = "SSL_write" /\ e.err # "SSL_ERROR_WANT_WRITE"

\* C6: when a handler call has classified an engine answer as fatal, the
\* error queue is empty when the call returns.
C6_QueueDrained ==
    (last.handler \in IoHandlers /\ \E i \in 1..Len(last.tr) : Fatal(last.tr[i]))
        => last.ret_queue = <<>>

\* a fatal answer that left several records in the queue
C6_Witness ==
    /\ last.handler \in IoHandlers
    /\ \E i \in Calls(last.tr, "drainErrorQueue") :
           last.tr[i].n >= 2 /\ Fatal(last.tr[i - 1])

\* C7 as stated: the bytes the engine accepted are a prefix of the bytes
\* appended, in order, and the bytes drained are exactly the bytes accepted.
C7_DrainedIsAccepted ==
    \A c \in Conns :
        /\ accepted[c] = Stream(1, Len(accepted[c]))
        /\ Len(accepted[c]) <= appended[c]
        /\ drained[c] = accepted[c]

\* C7 amended: the bytes the engine accepted are a prefix of the bytes
\* appended, in order; the write buffer holds the appended bytes that were
\* not drained; the bytes drained are a prefix of the bytes accepted, and
\* are all of them unless a doWriteToSocket call ended on a fatal answer.
C7_WriteOrder ==
    \A c \in Conns :
        /\ accepted[c] = Stream(1, Len(accepted[c]))
        /\ Len(accepted[c]) <= appended[c]
        /\ drained[c] \o Flatten(write_buffer_[c]) = Stream(1, appended[c])
        /\ IsPrefix(drained[c], accepted[c])
        /\ ("write error" \notin {closes[c][i] : i \in 1..Len(closes[c])}
                => drained[c] = accepted[c])

\* writes interleaved with appends: a second call drains what the first left
C7_Witness ==
    \E c \in Conns :
        /\ WriteLoopRan(c)
        /\ last.pre_accepted # <<>>
        /\ Len(accepted[c]) = MaxAppend
        /\ drained[c] = accepted[c]
        /\ write_buffer_[c] = <<>>

\* C8: the engine is never asked to read or write while handshake_complete_
\* is false and never asked for a handshake step once it is true (the
\* ASSERT of doHandshake never fails).
C8_HandshakeFirst ==
    \A c \in Conns :
        /\ assert_ok[c]
        /\ \A e \in engine_calls[c] :
               /\ e.op \in {"SSL_read", "SSL_write"} => e.hc
               /\ e.op = "SSL_do_handshake" => ~e.hc

\* a handshake that blocked, then one call that completes it and reads
C8_Witness ==
    \E c \in Conns :
        /\ last.conn = c /\ last.handler = "doReadFromSocket"
        /\ Calls(last.tr, "SSL_do_handshake") # {}
        /\ Calls(last.tr, "SSL_read") # {}
        /\ "SSL_ERROR_WANT_READ" \in handshakes[c]

HandshakeFailed(c) ==
    handshakes[c] \cap (FatalErrors \cup {"unverified"}) # {}

\* C9: handshake_complete_ never reverts, a closed connection stays closed
\* and keeps its flag, the connection only moves Handshaking -> Open ->
\* Closed or Handshaking -> Closed, and a connection whose handshake step
\* failed fatally or whose peer failed verification never has
\* handshake_complete_ true.
C9_Step ==
    \A c \in Conns :
        /\ handshake_complete_[c] => handshake_complete_'[c]
        /\ state[c] = "Closed" =>
               state'[c] = "Closed" /\ handshake_complete_'[c] = handshake_complete_[c]
        /\ <<Phase(handshake_complete_[c], state[c]),
             Phase(handshake_complete_'[c], state'[c])>> \in
               {<<"Handshaking", "Handshaking">>, <<"Handshaking", "Open">>,
                <<"Handshaking", "Closed">>, <<"Open", "Open">>,
                <<"Open", "Closed">>, <<"Closed", "Closed">>}
        /\ HandshakeFailed(c)' => ~handshake_complete_'[c] /\ state'[c] = "Closed"

C9_Lifecycle == [][C9_Step]_vars

\* a connection closed after it was open
C9_Witness ==
    \E c \in Conns :
        /\ state[c] = "Closed" /\ handshake_complete_[c]
        /\ last.conn = c /\ last.pre_hc /\ last.handler = "doReadFromSocket"

\* the calls made by the last action, the event loop's included
AllCalls == last.tr \o last.post

\* C10: every closeSocket call attempts the shutdown notification exactly
\* once, before the transport close, if handshake_complete_ is true, and not
\* at all if it is false; the transport close follows in every case.
C10_CloseSocket ==
    /\ \A i \in Calls(AllCalls, "closeSocket") :
           IF AllCalls[i].hc
           THEN /\ i + 3 <= Len(AllCalls)
                /\ AllCalls[i + 1].op = "SSL_shutdown"
                /\ AllCalls[i + 2].op = "drainErrorQueue"
                /\ AllCalls[i + 3].op = "close"
           ELSE /\ i + 1 <= Len(AllCalls)
                /\ AllCalls[i + 1].op = "close"
    /\ \A i \in Calls(AllCalls, "SSL_shutdown") :
           i > 1 /\ AllCalls[i - 1].op = "closeSocket"
    /\ \A c \in Conns :
           /\ (Calls(AllCalls, "closeSocket") # {} /\ last.conn = c) => state[c] = "Closed"
           /\ [op |-> "SSL_shutdown", hc |-> FALSE] \notin engine_calls[c]

\* a shutdown notification that failed, followed by the transport close
C10_Witness ==
    \E i \in Calls(AllCalls, "SSL_shutdown") :
        /\ AllCalls[i].n < 0
        /\ AllCalls[i + 2].op = "close"
        /\ state[last.conn] = "Closed"

\* C11: sha256PeerCertificateDigest returns the empty string whenever it is
\* called before the handshake has completed, also when the engine already
\* holds a peer certificate; after completion it returns the empty string
\* exactly when the peer presented no certificate.
C11_DigestAfterHandshake ==
    \A c \in Conns :
        (last.conn = c /\ last.handler = "sha256PeerCertificateDigest") =>
            /\ ~handshake_complete_[c] => last.result = <<>>
            /\ handshake_complete_[c] =>
                   (last.result = <<>> <=> peer[c].cert = NoCert)

\* C12: nextProtocol returns the empty string whenever the handshake is
\* incomplete, also when the engine has already selected a protocol, and
\* whenever no protocol was negotiated; otherwise it returns the negotiated
\* protocol.
C12_ProtocolAfterHandshake ==
    \A c \in Conns :
        (last.conn = c /\ last.handler = "nextProtocol") =>
            last.result = IF handshake_complete_[c] THEN peer[c].alpn ELSE <<>>

\* an engine read or write that asked for the opposite I/O direction
Switched(e) ==
    \/ e.op = "SSL_read" /\ e.n <= 0 /\ e.err = "SSL_ERROR_WANT_WRITE"
    \/ e.op = "SSL_write" /\ e.n <= 0 /\ e.err = "SSL_ERROR_WANT_READ"

\* C13: a WantWrite answer to an engine read, or a WantRead answer to an
\* engine write, makes the handler return Close; the error queue is drained
\* right after the answer and the call makes no further engine read or write.
C13_DirectionSwitchFatal ==
    \A i \in 1..Len(last.tr) :
        (last.handler \in IoHandlers /\ Switched(last.tr[i])) =>
            /\ last.action = Close
            /\ i < Len(last.tr) /\ last.tr[i + 1].op = "drainErrorQueue"
            /\ last.ret_queue = <<>>
            /\ \A j \in (i + 1)..Len(last.tr) :
                   last.tr[j].op \notin {"SSL_read", "SSL_write"}

\* a read loop that had received bytes was answered WantWrite
C13_Witness ==
    /\ last.handler = "doReadFromSocket"
    /\ last.action = Close
    /\ \E i \in 2..Len(last.tr) :
          /\ Switched(last.tr[i])
          /\ last.tr[i - 1].op = "SSL_read" /\ last.tr[i - 1].n > 0

\* the positions in the trace at which a callback closed the connection
\* while the Connected event was being delivered
ClosedInCallback ==
    {i \in 1..(Len(last.tr) - 1) :
        /\ last.tr[i].op = "raiseEvents" /\ last.tr[i].err = "Connected"
        /\ last.tr[i + 1].op = "closeSocket"}

\* C14: when a callback closes the connection during the Connected event,
\* doHandshake and the enclosing handler return Close; the handler makes no
\* engine read or write and leaves both buffers as they were, although
\* handshake_complete_ is true.
C14_ClosedInCallback ==
    \A c \in Conns :
        (last.conn = c /\ last.handler \in IoHandlers /\ ClosedInCallback # {}) =>
            /\ last.action = Close
            /\ \E i \in Calls(last.tr, "return") : last.tr[i].err = Close
            /\ Calls(last.tr, "SSL_read") = {} /\ Calls(last.tr, "SSL_write") = {}
            /\ Calls(last.tr, "reserve") = {} /\ Calls(last.tr, "drain") = {}
            /\ read_buffer_[c] = last.pre_read_buffer_
            /\ write_buffer_[c] = last.pre_write_buffer_
            /\ handshake_complete_[c]

\* a write handler with bytes to send whose handshake completed and whose
\* Connected callback closed the connection
C14_Witness ==
    /\ last.handler = "doWriteToSocket"
    /\ ClosedInCallback # {}
    /\ last.pre_write_buffer_ # <<>>
    /\ handshake_complete_[last.conn]

\* the engine reads of a handler call that are followed, in the same
\* reservation, by a read into the next region
ReadOn ==
    {i \in 1..(Len(last.tr) - 1) :
        last.tr[i].op = "SSL_read" /\ last.tr[i + 1].op = "SSL_read"}

\* C15, as stated: the next reserved region is read into only if the read
\* into the previous region filled it.
C15_NextOnlyIfFull ==
    \A i \in ReadOn :
        last.handler = "doReadFromSocket" => last.tr[i].n = last.tr[i].len

\* C15, amended: after a read into the first of two reserved regions returns
\* n > 0 bytes the second region is read into, whether the first was filled
\* or not; only a non-positive result ends the reading for the reservation.
C15_NextAfterPositive ==
    \A i \in 2..Len(last.tr) :
        (last.handler = "doReadFromSocket" /\ last.tr[i].op = "SSL_read") =>
            /\ (last.tr[i].n > 0 /\ last.tr[i - 1].op = "reserve"
                                 /\ last.tr[i - 1].n = 2)
                   => i \in ReadOn
            /\ last.tr[i].n <= 0 => i \notin ReadOn

\* the first region was only partly filled and the second was read into
C15_Witness ==
    /\ last.handler = "doReadFromSocket"
    /\ \E i \in ReadOn :
          /\ last.tr[i].n > 0
          /\ last.tr[i].n < last.tr[i].len
          /\ last.tr[i + 1].n > 0

\* the first engine write of the handler call that ran last
FirstWrite ==
    last.tr[CHOOSE i \in Calls(last.tr, "SSL_write") :
                \A j \in Calls(last.tr, "SSL_write") : i <= j]

\* C16: when the previous doWriteToSocket call ended on WantWrite and bytes
\* were only appended to the write buffer since, the first engine write of
\* the next doWriteToSocket call starts at the same byte of the appended
\* stream and has the same length as the write that was answered WantWrite.
C16_RetrySameSlice ==
    (/\ last.handler = "doWriteToSocket"
     /\ last.pre_want_write.len > 0
     /\ Calls(last.tr, "SSL_write") # {}) =>
        /\ FirstWrite.at = last.pre_want_write.at
        /\ FirstWrite.len = last.pre_want_write.len

\* a write answered WantWrite is retried, with more than one slice in the
\* write buffer, and the engine accepts it
C16_Witness ==
    /\ last.handler = "doWriteToSocket"
    /\ last.pre_want_write.len > 0
    /\ Len(last.pre_write_buffer_) >= 2
    /\ Calls(last.tr, "SSL_write") # {}
    /\ FirstWrite.n > 0

\* the engine calls of the handler call that ran last, those the event loop
\* made after it included
EngineEntries ==
    {e \in {(last.tr \o last.post)[i] : i \in 1..(Len(last.tr) + Len(last.post))} :
        e.op \in {"SSL_do_handshake", "SSL_read", "SSL_write", "SSL_shutdown"}}

\* the handler call that ran last took a failure path
Failed ==
    \/ last.handler \in IoHandlers /\ last.action = Close
    \/ \E e \in EngineEntries : e.op = "SSL_shutdown" /\ e.n <= 0

ReadStops == {i \in Calls(last.tr, "SSL_read") : last.tr[i].n <= 0}

C19_OnConnectedAssert ==
    \A c \in Conns :
        /\ transport[c] # "Established" =>
              ~handshake_complete_[c] /\ engine_calls[c] = {}
        /\ (last.conn = c /\ last.handler = "onConnected") =>
              ~handshake_complete_[c] /\ assert_ok[c]

\* onConnected has fired on a client connection that upstream code had
\* already written to
C19_Witness ==
    /\ last.handler = "onConnected"
    /\ transport[last.conn] = "Established"
    /\ write_buffer_[last.conn] # <<>>
    /\ Calls(last.post, "onConnected") # {}

\* the actions doHandshake returned to the handler call that ran last
Returned == {last.tr[i].err : i \in Calls(last.tr, "return")}

\* C20: a read or write handler called with handshake_complete_ false, whose
\* handshake step does not complete the handshake, returns the step's action
\* and leaves both buffers as they were: it reserves, commits and drains
\* nothing and makes no engine read or write.
C20_HandshakePendingFrame ==
    \A c \in Conns :
        (/\ last.conn = c /\ last.handler \in IoHandlers
         /\ ~last.pre_hc /\ ~handshake_complete_[c]) =>
            /\ Returned = {last.action}
            /\ read_buffer_[c] = last.pre_read_buffer_
            /\ write_buffer_[c] = last.pre_write_buffer_
            /\ \A i \in 1..Len(last.tr) :
                   last.tr[i].op \notin {"reserve", "commit", "drain",
                                         "SSL_read", "SSL_write"}

\* a write handler with bytes to send whose handshake step was told to wait
C20_Witness ==
    /\ last.handler = "doWriteToSocket"
    /\ ~last.pre_hc /\ ~handshake_complete_[last.conn]
    /\ last.pre_write_buffer_ # <<>>
    /\ last.action = KeepOpen
    /\ Returned = {KeepOpen}

\* C21: doWriteToSocket on a connection whose handshake is complete and
\* whose write buffer is empty returns KeepOpen and does nothing else: no
\* engine write, no drain of the buffer, no access to the error queue.
C21_EmptyWriteNoOp ==
    \A c \in Conns :
        (/\ last.conn = c /\ last.handler = "doWriteToSocket"
         /\ last.pre_hc /\ last.pre_write_buffer_ = <<>>) =>
            /\ last.action = KeepOpen
            /\ last.tr = <<>> /\ last.post = <<>>
            /\ write_buffer_[c] = <<>>
            /\ accepted[c] = last.pre_accepted
            /\ last.ret_queue = last.pre_err_queue
            /\ err_queue = last.pre_err_queue
            /\ state[c] = "Open"

\* the write handler runs on a connection whose buffer was written out and
\* drained by an earlier call
C21_Witness ==
    /\ last.handler = "doWriteToSocket"
    /\ last.pre_hc /\ last.pre_write_buffer_ = <<>>
    /\ drained[last.conn] # <<>>
    /\ last.action = KeepOpen

\* C22: on destruction the filters are torn down, once, before the TLS
\* session is freed: every query a filter makes during its teardown finds
\* the session alive and gets the answer the getter gives.
C22_FiltersBeforeSession ==
    \A c \in Conns :
        (last.conn = c /\ last.handler = "~ConnectionImpl") =>
            /\ Cardinality(Calls(last.tr, "destroyFilters")) = 1
            /\ Cardinality(Calls(last.tr, "SSL_free")) = 1
            /\ \A i \in Calls(last.tr, "destroyFilters") \cup Calls(last.tr, "query") :
                   /\ \A j \in Calls(last.tr, "SSL_free") : i < j
                   /\ last.tr[i].op = "query" =>
                         /\ last.tr[i].n = 1
                         /\ last.result = IF last.tr[i].err = "nextProtocol"
                                           THEN nextProtocol(Self(c))
                                           ELSE sha256PeerCertificateDigest(Self(c))
            /\ destroyed[c] = {"filters", "ssl_", "base"}

\* a filter asked for the peer certificate digest during its teardown and
\* got the digest of the certificate the session holds
C22_Witness ==
    /\ last.handler = "~ConnectionImpl"
    /\ \E i \in Calls(last.tr, "query") :
          last.tr[i].err = "sha256PeerCertificateDigest"
    /\ Len(last.result) = 2 * SHA256_DIGEST_LENGTH
    /\ destroyed[last.conn] = {"filters", "ssl_", "base"}

====
